---- MODULE Spec2Model ----
(***************************************************************************)
(* KaraLuxer (karaluxer.py): conversion of the karaoke timing tags of an   *)
(* ass subtitle file to ultrastar note records (parse_subtitles), and the  *)
(* validation of the command line paths (check_arg_paths).                 *)
(*                                                                         *)
(* Texts are sequences of one-character strings.  Times are integers in    *)
(* centiseconds, the resolution of ass time stamps and of karaoke tags.    *)
(***************************************************************************)
EXTENDS Integers, Sequences, FiniteSets, TLC

VARIABLES
    events,          \* sub_data.events: the parsed subtitle document
    dialogue_lines,  \* the Dialogue events, comments filtered out
    li,              \* index in dialogue_lines of the line being processed
    pc,              \* position in parse_subtitles
    current_beat,    \* the beat cursor
    matches,         \* re.findall(TIMING_REGEX, line.text) of the current line
    mi,              \* index in matches of the next match to transcode
    syllables,       \* (duration in centiseconds, sound) of the current line
    si,              \* index in syllables of the next syllable to write
    notes_string,    \* the output, as a sequence of records
    warnings,        \* number of warnings printed
    args,            \* the command line arguments of check_arg_paths
    apc,             \* position in check_arg_paths
    ret,             \* outcome of check_arg_paths
    errors           \* number of error messages printed by check_arg_paths

vars == <<events, dialogue_lines, li, pc, current_beat, matches, mi, syllables,
          si, notes_string, warnings, args, apc, ret, errors>>

parseVars == <<events, dialogue_lines, li, pc, current_beat, matches, mi,
               syllables, si, notes_string, warnings>>

argVars == <<args, apc, ret, errors>>

-----------------------------------------------------------------------------
(* Bounds of the model *)

MaxFrags == 3

MaxEvents == 2

-----------------------------------------------------------------------------
(* Globals *)

BEATS_PER_SECOND == 20

PITCH == 19

Digits == {"0", "1", "2", "3", "4", "5", "6", "7", "8", "9"}

\* the character class [a-z|A-Z] of TIMING_REGEX
Letters ==
    {"a", "b", "c", "d", "e", "f", "g", "h", "i", "j", "k", "l", "m",
     "n", "o", "p", "q", "r", "s", "t", "u", "v", "w", "x", "y", "z",
     "A", "B", "C", "D", "E", "F", "G", "H", "I", "J", "K", "L", "M",
     "N", "O", "P", "Q", "R", "S", "T", "U", "V", "W", "X", "Y", "Z", "|"}

-----------------------------------------------------------------------------
(* Text helpers *)

\* the character at position i, "" beyond the ends of the text
At(t, i) == IF i \in 1..Len(t) THEN t[i] ELSE ""

Sub(t, from, to) == SubSeq(t, from, to - 1)

\* first position q >= p whose character is not in class (Len(t)+1 at the end)
RunEnd(t, p, class) ==
    CHOOSE q \in p..(Len(t) + 1) :
        /\ At(t, q) \notin class
        /\ \A r \in p..(q - 1) : At(t, r) \in class

\* str.split(sep) for a one-character separator
RECURSIVE Split(_, _)
Split(s, sep) ==
    IF \A i \in 1..Len(s) : s[i] # sep
    THEN <<s>>
    ELSE LET q == CHOOSE i \in 1..Len(s) :
                      s[i] = sep /\ \A r \in 1..(i - 1) : s[r] # sep
         IN  <<Sub(s, 1, q)>> \o Split(SubSeq(s, q + 1, Len(s)), sep)

\* re.sub(r'[^0-9]', '', timing)
StripNonDigits(s) == SelectSeq(s, LAMBDA c : c \in Digits)

DigitValue(c) ==
    CASE c = "0" -> 0 [] c = "1" -> 1 [] c = "2" -> 2 [] c = "3" -> 3
      [] c = "4" -> 4 [] c = "5" -> 5 [] c = "6" -> 6 [] c = "7" -> 7
      [] c = "8" -> 8 [] c = "9" -> 9

\* int(s) for a string of decimal digits
RECURSIVE ToInt(_)
ToInt(s) ==
    IF s = <<>> THEN 0
    ELSE 10 * ToInt(SubSeq(s, 1, Len(s) - 1)) + DigitValue(s[Len(s)])

-----------------------------------------------------------------------------
\* TIMING_REGEX: a tag {\k<digits>} and the run of letters after it (first
\* group), or a tag {\k<digits><anything but a closing brace>} (second group);
\* the marker is one of k, kf, ko, K

NoMatch == [shape |-> 0, from |-> 0, to |-> 0, digits |-> 0, digitsEnd |-> 0]

\* length of the karaoke marker at p followed by a digit, 0 when there is none
MarkerLen(t, p) ==
    IF At(t, p) = "k" /\ At(t, p + 1) \in Digits THEN 1
    ELSE IF At(t, p) = "k" /\ At(t, p + 1) \in {"f", "o"}
                /\ At(t, p + 2) \in Digits THEN 2
    ELSE IF At(t, p) = "K" /\ At(t, p + 1) \in Digits THEN 1
    ELSE 0

\* the match of TIMING_REGEX that starts at position p, NoMatch when none does.
\* shape 1 is the first group (tag and letter run), shape 2 the second group
\* (tag with further content in its body); "to" is one past the match.
MatchAt(t, p) ==
    IF ~(At(t, p) = "{" /\ At(t, p + 1) = "\\" /\ MarkerLen(t, p + 2) > 0)
    THEN NoMatch
    ELSE LET ds == p + 2 + MarkerLen(t, p + 2)
             de == RunEnd(t, ds, Digits)
         IN  IF At(t, de) = "}"
             THEN [shape |-> 1, from |-> p, to |-> RunEnd(t, de + 1, Letters),
                   digits |-> ds, digitsEnd |-> de]
             ELSE IF \E q \in de..Len(t) : t[q] = "}"
             THEN [shape |-> 2, from |-> p,
                   to |-> 1 + (CHOOSE q \in de..Len(t) :
                                  t[q] = "}" /\ \A r \in de..(q - 1) : t[r] # "}"),
                   digits |-> ds, digitsEnd |-> de]
             ELSE NoMatch

\* a scan that ends at the first position where nothing matches
RECURSIVE ScanFromAbort(_, _)
ScanFromAbort(t, p) ==
    IF p > Len(t) THEN <<>>
    ELSE LET m == MatchAt(t, p)
         IN  IF m.shape = 0 THEN <<>>
             ELSE <<m>> \o ScanFromAbort(t, m.to)

\* the scan of re.findall: leftmost matches, left to right, not overlapping;
\* a position where nothing matches is passed over
RECURSIVE ScanFrom(_, _)
ScanFrom(t, p) ==
    IF p > Len(t) THEN <<>>
    ELSE LET m == MatchAt(t, p)
         IN  IF m.shape = 0 THEN ScanFrom(t, p + 1)
             ELSE <<m>> \o ScanFrom(t, m.to)

FindSpans(t) == ScanFrom(t, 1)

\* re.findall(TIMING_REGEX, text): one pair (sound_line, timing_line) a match,
\* the group that did not take part being the empty string
FindAll(t) ==
    LET sp == FindSpans(t)
    IN  [i \in 1..Len(sp) |->
            IF sp[i].shape = 1
            THEN <<Sub(t, sp[i].from, sp[i].to), <<>>>>
            ELSE <<<<>>, Sub(t, sp[i].from, sp[i].to)>>]

-----------------------------------------------------------------------------
(* The subtitle documents the model reads *)

\* {\k7}la : a tag and its syllable, 1 beat
FragSyllable == <<"{", "\\", "k", "7", "}", "l", "a">>

\* {\ko3}a : a tag and its syllable, shorter than one beat
FragShort == <<"{", "\\", "k", "o", "3", "}", "a">>

\* {\K25} : a tag followed by no letter
FragBare == <<"{", "\\", "K", "2", "5", "}">>

\* {\kf10\b} : a tag with a further override tag in its body
FragOverride == <<"{", "\\", "k", "f", "1", "0", "\\", "b", "}">>

\* {\k1 2} : a tag with stray characters in its body
FragStray == <<"{", "\\", "k", "1", " ", "2", "}">>

\* x{\k} : a letter and a karaoke marker without a duration
FragNoDuration == <<"x", "{", "\\", "k", "}">>

\* {\k5 : a tag that is not closed
FragOpen == <<"{", "\\", "k", "5">>

Frags == {FragSyllable, FragShort, FragBare, FragOverride, FragStray,
          FragNoDuration, FragOpen}

RECURSIVE Concat(_)
Concat(fs) == IF fs = <<>> THEN <<>> ELSE Head(fs) \o Concat(Tail(fs))

SeqsUpTo(S, n) == UNION {[1..k -> S] : k \in 0..n}

\* the texts of up to MaxFrags fragments
Texts == {Concat(fs) : fs \in SeqsUpTo(Frags, MaxFrags)}

\* the texts of the lines of the documents of several events
ShortTexts ==
    {Concat(fs) : fs \in SeqsUpTo({FragSyllable, FragOverride, FragNoDuration}, 2)}

\* start times, in centiseconds: 0:00:00.03 and 0:00:01.04
Starts == {3, 104}

Event(k, s, t) == [kind |-> k, start |-> s, text |-> t]

\* a document of one Dialogue event
LineDocs == {<<Event("Dialogue", s, t)>> : s \in Starts, t \in Texts}

\* the documents of up to MaxEvents events, Dialogue events and comments
EventChoices ==
    {Event("Dialogue", s, t) : s \in Starts, t \in ShortTexts}
        \cup {Event("Comment", 104, FragSyllable)}

Docs == LineDocs \cup SeqsUpTo(EventChoices, MaxEvents)

-----------------------------------------------------------------------------
(* parse_subtitles *)

\* floor(line.start.total_seconds() * BEATS_PER_SECOND), start in centiseconds;
\* the floating point product floors to the integer quotient for every start
\* and duration of a whole number of centiseconds
InitialBeat(start) == (start * BEATS_PER_SECOND) \div 100

\* the duration rounded to the nearest beat
DurationBeatsRounded(duration_cs) ==
    (duration_cs * BEATS_PER_SECOND + 50) \div 100

\* floor((duration_cs / 100) * BEATS_PER_SECOND)
DurationBeats(duration_cs) == (duration_cs * BEATS_PER_SECOND) \div 100

\* the body of the loop over the matches: the syllable of one match, a pair
\* (sound_line, timing_line); sound None is isNone, with the empty text
TranscodeMatch(m) ==
    LET sound_line == m[1]
        timing_line == m[2]
    IN  IF sound_line # <<>>
        THEN LET parts == Split(sound_line, "}")
             IN  IF Len(parts) # 2
                 THEN [kind |-> "ValueError"]
                 ELSE [kind |-> "syllable",
                       cs |-> ToInt(StripNonDigits(parts[1])),
                       sound |-> parts[2], isNone |-> FALSE]
        ELSE IF timing_line # <<>>
        THEN [kind |-> "syllable",
              cs |-> ToInt(StripNonDigits(Split(timing_line, "\\")[2])),
              sound |-> <<>>, isNone |-> TRUE]
        ELSE [kind |-> "warning"]

\* the test "if sound is not None:"
TruthyNotNone(syl) == ~syl.isNone

\* truth value of sound in "if sound:"
Truthy(syl) == ~syl.isNone /\ syl.sound # <<>>

Note(start, duration, sound) ==
    [type |-> "note", start |-> start, duration |-> duration,
     pitch |-> PITCH, sound |-> sound]

Sep(beat) == [type |-> "sep", beat |-> beat]

Line == dialogue_lines[li]

Idle == <<>>

InitParse ==
    /\ events \in Docs
    /\ dialogue_lines = <<>>
    /\ li = 0
    /\ pc = "start"
    /\ current_beat = 0
    /\ matches = <<>>
    /\ mi = 1
    /\ syllables = <<>>
    /\ si = 1
    /\ notes_string = <<>>
    /\ warnings = 0

ArgsIdle == args = Idle /\ apc = "idle" /\ ret = "none" /\ errors = 0

Init == InitParse /\ ArgsIdle

\* the comments are not filtered out
ParseStartNoFilter ==
    /\ pc = "start"
    /\ notes_string' = <<>>
    /\ dialogue_lines' = events
    /\ li' = 0
    /\ pc' = "line"
    /\ UNCHANGED <<events, current_beat, matches, mi, syllables, si, warnings>>
    /\ UNCHANGED argVars

\* lines 29-36: the output is empty, the comments are filtered out
ParseStart ==
    /\ pc = "start"
    /\ notes_string' = <<>>
    /\ dialogue_lines' = SelectSeq(events, LAMBDA e : e.kind = "Dialogue")
    /\ li' = 0
    /\ pc' = "line"
    /\ UNCHANGED <<events, current_beat, matches, mi, syllables, si, warnings>>
    /\ UNCHANGED argVars

\* the cursor of a line after the first starts where the previous line ended
LineStartCarry ==
    /\ pc = "line"
    /\ li < Len(dialogue_lines)
    /\ li' = li + 1
    /\ current_beat' = IF li = 0 THEN InitialBeat(dialogue_lines[li + 1].start)
                       ELSE current_beat
    /\ syllables' = <<>>
    /\ matches' = FindAll(dialogue_lines[li + 1].text)
    /\ mi' = 1
    /\ pc' = "scan"
    /\ UNCHANGED <<events, dialogue_lines, si, notes_string, warnings>>
    /\ UNCHANGED argVars

\* lines 39-45: the next line; the cursor is set, the text is scanned
LineStart ==
    /\ pc = "line"
    /\ li < Len(dialogue_lines)
    /\ li' = li + 1
    /\ current_beat' = InitialBeat(dialogue_lines[li + 1].start)
    /\ syllables' = <<>>
    /\ matches' = FindAll(dialogue_lines[li + 1].text)
    /\ mi' = 1
    /\ pc' = "scan"
    /\ UNCHANGED <<events, dialogue_lines, si, notes_string, warnings>>
    /\ UNCHANGED argVars

\* lines 45-56: one match becomes a syllable
ScanTag ==
    /\ pc = "scan"
    /\ mi <= Len(matches)
    /\ LET r == TranscodeMatch(matches[mi])
       IN  /\ syllables' = IF r.kind = "syllable"
                           THEN Append(syllables, [cs |-> r.cs, sound |-> r.sound,
                                                   isNone |-> r.isNone])
                           ELSE syllables
           /\ warnings' = IF r.kind = "warning" THEN warnings + 1 ELSE warnings
           /\ pc' = IF r.kind = "ValueError" THEN "raised" ELSE "scan"
    /\ mi' = mi + 1
    /\ UNCHANGED <<events, dialogue_lines, li, current_beat, matches, si,
                   notes_string>>
    /\ UNCHANGED argVars

\* line 45 to line 59: the matches are exhausted
ScanEnd ==
    /\ pc = "scan"
    /\ mi > Len(matches)
    /\ si' = 1
    /\ pc' = "write"
    /\ UNCHANGED <<events, dialogue_lines, li, current_beat, matches, mi,
                   syllables, notes_string, warnings>>
    /\ UNCHANGED argVars

\* the cursor advances only when a note is written
WriteSyllableAdvanceIfSound ==
    /\ pc = "write"
    /\ si <= Len(syllables)
    /\ LET duration == DurationBeats(syllables[si].cs)
       IN  /\ notes_string' =
                 IF Truthy(syllables[si])
                 THEN Append(notes_string,
                             Note(current_beat, duration - 1, syllables[si].sound))
                 ELSE notes_string
           /\ current_beat' = IF Truthy(syllables[si])
                              THEN current_beat + duration
                              ELSE current_beat
    /\ si' = si + 1
    /\ UNCHANGED <<events, dialogue_lines, li, pc, matches, mi, syllables,
                   warnings>>
    /\ UNCHANGED argVars

\* the duration of a note is not reduced by 1
WriteSyllableNoGap ==
    /\ pc = "write"
    /\ si <= Len(syllables)
    /\ LET duration == DurationBeats(syllables[si].cs)
       IN  /\ notes_string' =
                 IF Truthy(syllables[si])
                 THEN Append(notes_string,
                             Note(current_beat, duration, syllables[si].sound))
                 ELSE notes_string
           /\ current_beat' = current_beat + duration
    /\ si' = si + 1
    /\ UNCHANGED <<events, dialogue_lines, li, pc, matches, mi, syllables,
                   warnings>>
    /\ UNCHANGED argVars

\* lines 59-68: one syllable is written out
WriteSyllable ==
    /\ pc = "write"
    /\ si <= Len(syllables)
    /\ LET duration == DurationBeats(syllables[si].cs)
       IN  /\ notes_string' =
                 IF Truthy(syllables[si])
                 THEN Append(notes_string,
                             Note(current_beat, duration - 1, syllables[si].sound))
                 ELSE notes_string
           /\ current_beat' = current_beat + duration
    /\ si' = si + 1
    /\ UNCHANGED <<events, dialogue_lines, li, pc, matches, mi, syllables,
                   warnings>>
    /\ UNCHANGED argVars

\* line 71: the line separator
Separator ==
    /\ pc = "write"
    /\ si > Len(syllables)
    /\ notes_string' = Append(notes_string, Sep(current_beat))
    /\ pc' = "line"
    /\ UNCHANGED <<events, dialogue_lines, li, current_beat, matches, mi,
                   syllables, si, warnings>>
    /\ UNCHANGED argVars

\* line 73
Return ==
    /\ pc = "line"
    /\ li >= Len(dialogue_lines)
    /\ pc' = "done"
    /\ UNCHANGED <<events, dialogue_lines, li, current_beat, matches, mi,
                   syllables, si, notes_string, warnings>>
    /\ UNCHANGED argVars

Next ==
    \/ ParseStart
    \/ LineStart
    \/ ScanTag
    \/ ScanEnd
    \/ WriteSyllable
    \/ Separator
    \/ Return

Spec == Init /\ [][Next]_vars

-----------------------------------------------------------------------------
(* check_arg_paths *)

\* an optional argument: not given (None), given as the empty string, or a path
ArgNone == [given |-> "None", exists |-> FALSE, suffix |-> ""]

ArgEmpty == [given |-> "Empty", exists |-> TRUE, suffix |-> ""]

\* Path(p).suffix is empty or starts with a dot
Suffixes == {"", ".png", ".mp4"}

OptArgs ==
    {ArgNone, ArgEmpty}
        \cup {[given |-> "Path", exists |-> e, suffix |-> x] :
                 e \in BOOLEAN, x \in Suffixes}

ArgSets ==
    [audio : BOOLEAN, ass : BOOLEAN, cover : OptArgs, background : OptArgs,
     background_video : OptArgs]

\* truth value of an optional argument
Given(a) == a.given = "Path"

\* Path(a).suffix: Path(None) raises TypeError
PathSuffix(a) == IF a.given = "None" THEN "TypeError" ELSE a.suffix

ParseIdle ==
    /\ events = <<>>
    /\ dialogue_lines = <<>>
    /\ li = 0
    /\ pc = "idle"
    /\ current_beat = 0
    /\ matches = <<>>
    /\ mi = 1
    /\ syllables = <<>>
    /\ si = 1
    /\ notes_string = <<>>
    /\ warnings = 0

InitArgs ==
    /\ ParseIdle
    /\ args \in ArgSets
    /\ apc = "audio"
    /\ ret = "none"
    /\ errors = 0

\* an error is printed and False returned
Fail == apc' = "done" /\ ret' = "False" /\ errors' = errors + 1

Raise == apc' = "raised" /\ ret' = "TypeError" /\ errors' = errors

Pass(next) == apc' = next /\ ret' = ret /\ errors' = errors

\* lines 237-239
CheckAudio ==
    /\ apc = "audio"
    /\ IF ~args.audio THEN Fail ELSE Pass("ass")
    /\ UNCHANGED args
    /\ UNCHANGED parseVars

\* lines 241-243
CheckAss ==
    /\ apc = "ass"
    /\ IF ~args.ass THEN Fail ELSE Pass("cover")
    /\ UNCHANGED args
    /\ UNCHANGED parseVars

\* lines 245-251
CheckCover ==
    /\ apc = "cover"
    /\ IF Given(args.cover) /\ ~args.cover.exists
       THEN Fail
       ELSE IF Given(args.cover)
       THEN IF PathSuffix(args.cover) \in {"jpg", "jpeg", "png"}
            THEN Fail
            ELSE Pass("background")
       ELSE Pass("background")
    /\ UNCHANGED args
    /\ UNCHANGED parseVars

\* lines 253-259
CheckBackground ==
    /\ apc = "background"
    /\ IF Given(args.background) /\ ~args.background.exists
       THEN Fail
       ELSE IF Given(args.cover)
       THEN IF PathSuffix(args.background) = "TypeError"
            THEN Raise
            ELSE IF PathSuffix(args.background) \in {"jpg", "jpeg", "png"}
            THEN Fail
            ELSE Pass("background_video")
       ELSE Pass("background_video")
    /\ UNCHANGED args
    /\ UNCHANGED parseVars

\* lines 261-268
CheckVideo ==
    /\ apc = "background_video"
    /\ IF Given(args.background_video) /\ ~args.background_video.exists
       THEN Fail
       ELSE IF Given(args.background_video)
       THEN IF PathSuffix(args.background_video) # ".mp4"
            THEN IF PathSuffix(args.background) = "TypeError"
                 THEN Raise
                 ELSE Fail
            ELSE Pass("return")
       ELSE Pass("return")
    /\ UNCHANGED args
    /\ UNCHANGED parseVars

\* line 270
ReturnTrue ==
    /\ apc = "return"
    /\ apc' = "done"
    /\ ret' = "True"
    /\ UNCHANGED <<args, errors>>
    /\ UNCHANGED parseVars

NextArgs ==
    \/ CheckAudio
    \/ CheckAss
    \/ CheckCover
    \/ CheckBackground
    \/ CheckVideo
    \/ ReturnTrue

SpecArgs == InitArgs /\ [][NextArgs]_vars

-----------------------------------------------------------------------------
(* Properties of parse_subtitles *)

\* floor((centiseconds / 100) * 20), as the properties state it
Beats(centiseconds) == (centiseconds * 20) \div 100

\* the tag carries text
CarriesText(syl) == syl.sound # <<>>

RECURSIVE SumBeats(_)
SumBeats(syls) ==
    IF syls = <<>> THEN 0 ELSE Beats(Head(syls).cs) + SumBeats(Tail(syls))

\* position of the last separator of ns before position i, 0 when there is none
LastSepBefore(ns, i) ==
    LET S == {j \in 1..(i - 1) : j <= Len(ns) /\ ns[j].type = "sep"}
    IN  IF S = {} THEN 0 ELSE CHOOSE j \in S : \A k \in S : k <= j

\* the records written so far for the line being processed
CurrentNotes ==
    SubSeq(notes_string, LastSepBefore(notes_string, Len(notes_string) + 1) + 1,
           Len(notes_string))

\* the separator of the current line has just been written
JustSeparated == pc = "line" /\ li >= 1

\* the records of the line whose separator has just been written
LastBlock ==
    SubSeq(notes_string, LastSepBefore(notes_string, Len(notes_string)) + 1,
           Len(notes_string))

\* the number of syllables among the first n that carry text
TextCount(syls, n) == Cardinality({i \in 1..n : CarriesText(syls[i])})

\* the positions of the text at which a tag of either shape starts
TagStarts(t) == {p \in 1..Len(t) : MatchAt(t, p).shape # 0}

\* the positions of the text that no scanned match covers
Skipped(t) ==
    LET sp == FindSpans(t)
    IN  {p \in 1..Len(t) : \A i \in 1..Len(sp) : p < sp[i].from \/ p >= sp[i].to}

\* what one line contributes to the output, from its start time and text alone
RECURSIVE RecordsFrom(_, _)
RecordsFrom(beat, syls) ==
    IF syls = <<>> THEN <<Sep(beat)>>
    ELSE LET d == Beats(Head(syls).cs)
             rest == RecordsFrom(beat + d, Tail(syls))
         IN  IF CarriesText(Head(syls))
             THEN <<Note(beat, d - 1, Head(syls).sound)>> \o rest
             ELSE rest

TagsOf(text) ==
    LET ms == FindAll(text)
    IN  [i \in 1..Len(ms) |->
            LET r == TranscodeMatch(ms[i])
            IN  [cs |-> r.cs, sound |-> r.sound, isNone |-> r.isNone]]

LineRecords(start, text) == RecordsFrom(Beats(start), TagsOf(text))

\* C1: the beat of a line's separator record is floor(startSeconds * 20) plus
\* the sum, over all the tags the scanner produced for the line, with or
\* without text, of floor((durationCentiseconds / 100) * 20).
C1_SeparatorBeat ==
    JustSeparated =>
        /\ notes_string # <<>>
        /\ notes_string[Len(notes_string)].type = "sep"
        /\ Len(syllables) = Len(FindSpans(Line.text))
        /\ notes_string[Len(notes_string)].beat
               = Beats(Line.start) + SumBeats(syllables)

\* a line with a tag with text and a tag without, both of one beat or more,
\* has been closed by its separator
C1_Witness ==
    /\ JustSeparated
    /\ \E i, j \in 1..Len(syllables) :
          /\ CarriesText(syllables[i]) /\ Beats(syllables[i].cs) > 0
          /\ ~CarriesText(syllables[j]) /\ Beats(syllables[j].cs) > 0
    /\ Beats(Line.start) > 0

\* C2: for a tag that carries text, with d = floor((cs / 100) * 20), the note
\* record written has duration d - 1 (-1 when d = 0) and the cursor advances by
\* d itself.
C2_NoteDuration ==
    [][(pc = "write" /\ si <= Len(syllables) /\ CarriesText(syllables[si])) =>
          /\ Len(notes_string') = Len(notes_string) + 1
          /\ notes_string'[Len(notes_string')].type = "note"
          /\ notes_string'[Len(notes_string')].sound = syllables[si].sound
          /\ notes_string'[Len(notes_string')].duration
                 = Beats(syllables[si].cs) - 1
          /\ current_beat' = current_beat + Beats(syllables[si].cs)]_vars

\* a note of duration -1 (a tag of less than one beat) and a note of a positive
\* number of beats have been written, the cursor in between having moved
C2_Witness ==
    \E i, j \in 1..Len(notes_string) :
        /\ notes_string[i].type = "note" /\ notes_string[i].duration = -1
        /\ notes_string[j].type = "note" /\ notes_string[j].duration >= 0
        /\ notes_string[j].start # notes_string[i].start

\* C3: a tag without text (a tag of the second shape, or a tag followed by an
\* empty run of letters) produces no note record, and its beats are added to the
\* cursor: while a line is written out, its notes are as many as its processed
\* tags with text, the cursor is the line's initial beat plus the beats of all
\* processed tags, and a note starts at the initial beat plus the beats of all
\* the tags before it.
C3_TimingTagAdvances ==
    pc = "write" =>
        /\ Len(CurrentNotes) = TextCount(syllables, si - 1)
        /\ current_beat
               = Beats(Line.start) + SumBeats(SubSeq(syllables, 1, si - 1))
        /\ \A i \in 1..(si - 1) :
              CarriesText(syllables[i]) =>
                  CurrentNotes[TextCount(syllables, i)].start
                      = Beats(Line.start) + SumBeats(SubSeq(syllables, 1, i - 1))

\* a tag of the second shape and a tag with an empty run of letters, each of one
\* beat or more, have been passed, and a note was written after them
C3_Witness ==
    /\ pc = "write"
    /\ \E i, j, k \in 1..(si - 1) :
          /\ i < k /\ j < k
          /\ syllables[i].isNone /\ Beats(syllables[i].cs) > 0
          /\ ~syllables[j].isNone /\ syllables[j].sound = <<>>
          /\ Beats(syllables[j].cs) > 0
          /\ CarriesText(syllables[k])

\* C4: at the start of a line the cursor is floor(startSeconds * 20) of that
\* line, not the value the previous line left, and the records written for a
\* line are those its start time and text alone determine.
C4_CursorReinitialized ==
    /\ (pc = "scan" => current_beat = Beats(Line.start))
    /\ (JustSeparated => LastBlock = LineRecords(Line.start, Line.text))

\* the second line has been written, with a note, and it starts before the beat
\* at which the first line ended
C4_Witness ==
    /\ JustSeparated
    /\ li = 2
    /\ Len(LastBlock) > 1
    /\ \E i \in 1..Len(notes_string) :
          /\ notes_string[i].type = "sep"
          /\ i < Len(notes_string)
          /\ notes_string[i].beat > Beats(Line.start)

\* the output reduced to the kind of each record and the text of each note
Shape(ns) ==
    [i \in 1..Len(ns) |->
        IF ns[i].type = "note" THEN [type |-> "note", sound |-> ns[i].sound]
        ELSE [type |-> "sep", sound |-> <<>>]]

RECURSIVE TextsOf(_)
TextsOf(syls) ==
    IF syls = <<>> THEN <<>>
    ELSE (IF CarriesText(Head(syls))
          THEN <<[type |-> "note", sound |-> Head(syls).sound]>> ELSE <<>>)
             \o TextsOf(Tail(syls))

RECURSIVE ExpectedShape(_)
ExpectedShape(evs) ==
    IF evs = <<>> THEN <<>>
    ELSE (IF Head(evs).kind = "Dialogue"
          THEN TextsOf(TagsOf(Head(evs).text))
                   \o <<[type |-> "sep", sound |-> <<>>]>>
          ELSE <<>>)
             \o ExpectedShape(Tail(evs))

\* C5: the text returned is, for each Dialogue event in input order, the notes
\* of the line in the order of its tags and then one separator; the other
\* events contribute nothing, so that there are as many separators as Dialogue
\* events.
C5_OutputOrder ==
    pc = "done" =>
        /\ Shape(notes_string) = ExpectedShape(events)
        /\ Cardinality({i \in 1..Len(notes_string) : notes_string[i].type = "sep"})
               = Cardinality({i \in 1..Len(events) : events[i].kind = "Dialogue"})

\* a document of a comment and a Dialogue line with a note has been converted
C5_Witness ==
    /\ pc = "done"
    /\ \E i \in 1..Len(events) : events[i].kind = "Comment"
    /\ \E i \in 1..Len(events) : events[i].kind = "Dialogue"
    /\ \E i \in 1..Len(notes_string) : notes_string[i].type = "note"

C7_WarningOnSkip ==
    (pc = "write" /\ Skipped(Line.text) # {}) => warnings > 0

\* C8: the duration of every tag the scanner produces is the decimal integer
\* that directly follows the karaoke marker in the tag.
C8_DurationAfterMarker ==
    pc = "write" =>
        LET sp == FindSpans(Line.text)
        IN  /\ Len(syllables) = Len(sp)
            /\ \A i \in 1..Len(sp) :
                  syllables[i].cs
                      = ToInt(Sub(Line.text, sp[i].digits, sp[i].digitsEnd))

\* C10: within a line the notes do not overlap and their start beats do not
\* decrease: a note's start + duration + 1 is at most the start of the note
\* written next, and at most the beat of the separator when it is the last.
C10_NoOverlap ==
    \A i \in 1..(Len(notes_string) - 1) :
        notes_string[i].type = "note" =>
            IF notes_string[i + 1].type = "note"
            THEN /\ notes_string[i].start + notes_string[i].duration + 1
                        <= notes_string[i + 1].start
                 /\ notes_string[i].start <= notes_string[i + 1].start
            ELSE notes_string[i].start + notes_string[i].duration + 1
                     <= notes_string[i + 1].beat

\* two notes of one line, the first of one beat or more, and the separator
\* after them have been written
C10_Witness ==
    \E i \in 1..(Len(notes_string) - 2) :
        /\ notes_string[i].type = "note" /\ notes_string[i].duration >= 0
        /\ notes_string[i + 1].type = "note"
        /\ notes_string[i + 2].type = "sep"

-----------------------------------------------------------------------------
(* Properties of check_arg_paths *)

\* C9: whatever optional arguments are given and whatever paths exist,
\* check_arg_paths ends by returning a boolean and never raises, False being
\* returned with an error reported.
C9_ReturnsBoolean ==
    /\ apc # "raised"
    /\ (apc = "done" => ret \in {"True", "False"})
    /\ (ret = "False" => errors > 0)

====
